---- MODULE Spec2Model ----
(***************************************************************************)
(* Model of the startup-payload ETL core of scripts/hoh_local_analyzer.py: *)
(* HoHLocalAnalyzer.classify_startup_messages (the record classifier) and  *)
(* HoHLocalAnalyzer.build_master_tables (the entity builder), driven in    *)
(* the order main() calls them.                                            *)
(*                                                                         *)
(* Python strings are sequences of one-character strings, so that          *)
(* str.endswith and str.replace are computed, not assumed.  A JSON value   *)
(* is a record [t, s, n]: t is its Python type, s its characters when it   *)
(* is a str, n its number when it is a number.  A dict is a record with    *)
(* one field per key the code reads; a key the dict does not have holds    *)
(* Absent.                                                                 *)
(***************************************************************************)
EXTENDS Integers, Sequences, FiniteSets, TLC

VARIABLES
    pc,                   \* position of main(): which call comes next
    error,                \* the exception that ended the run, or NoError
    raised_at,            \* the step that raised it, or NoStep
    messages,             \* self.messages
    msg_index,            \* position of the `for msg in self.messages` loop
    raw_playerdto,
    raw_heropush,
    raw_equipment_lists,
    raw_relic_lists,
    raw_cities,
    raw_alliance_members,
    raw_alliance_cities,
    player_info,
    heroes,
    decks,
    equipment,
    relics,
    cities,
    alliance_members,
    alliance_cities,
    classify_calls,       \* how often classify_startup_messages was entered
    consumed,             \* the consumers of the model that were called
    files,                \* the files under data_dir written so far
    skip_download,        \* args.skip_download
    startup_file,         \* what raw/startup.json holds, or NoFile
    session_data,         \* self.session_data
    startup,              \* self.startup
    requests_sent,        \* the HTTP requests sent to the game servers
    exit_status,          \* what main() returned, or NoStatus
    urls,                 \* process_urls: the urls it was called with
    max_workers,          \* process_urls: the size of the pool
    dl_pc,                \* process_urls: where the calling thread is
    futures,              \* the state of the download of each url
    collected,            \* the futures as_completed has yielded
    failed_downloads,     \* process_urls: failed_downloads
    retry_index,          \* position of the loop over failed_downloads
    retry_running,        \* a download of the retry loop is in flight
    attempts              \* the arguments download_file was called with

buckets == <<raw_playerdto, raw_heropush, raw_equipment_lists, raw_relic_lists,
             raw_cities, raw_alliance_members, raw_alliance_cities>>
model == <<player_info, heroes, decks, equipment, relics, cities,
           alliance_members, alliance_cities>>
outputs == <<consumed, files>>

run == <<skip_download, startup_file, session_data, requests_sent,
         exit_status>>

downloader == <<urls, max_workers, dl_pc, futures, collected,
                failed_downloads, retry_index, retry_running, attempts>>

vars == <<pc, error, raised_at, messages, msg_index, buckets, model,
          classify_calls, outputs, startup, run, downloader>>

----------------------------------------------------------------------------
(* Bound of the model: the longest record stream that is loaded.           *)
MaxMsgs == 3

(* the longest stream of the runs that call the methods more freely *)
MaxCallMsgs == 2

(* how often classify_startup_messages is called on one analyzer *)
MaxClassifyCalls == 2

----------------------------------------------------------------------------
(* JSON values *)

Absent == [t |-> "absent", s |-> <<>>, n |-> 0]
Null == [t |-> "null", s |-> <<>>, n |-> 0]
Str(chars) == [t |-> "str", s |-> chars, n |-> 0]
Num(k) == [t |-> "num", s |-> <<>>, n |-> k]
EmptyListValue == [t |-> "list", s |-> <<>>, n |-> 0]
EmptyDictValue == [t |-> "dict", s |-> <<>>, n |-> 0]

(* dict.get(key): None when the key is missing *)
Get(v) == IF v.t = "absent" THEN Null ELSE v
(* dict.get(key, default) *)
GetDefault(v, default) == IF v.t = "absent" THEN default ELSE v

(* Python truth value of a JSON value *)
Truthy(v) ==
    CASE v.t = "str" -> v.s # <<>>
      [] v.t = "num" -> v.n # 0
      [] v.t = "list" -> FALSE
      [] v.t = "dict" -> FALSE
      [] OTHER -> FALSE

(* list-valued and dict-valued keys *)
AbsentList == [t |-> "absent", items |-> <<>>]
NullList == [t |-> "null", items |-> <<>>]
List(items) == [t |-> "list", items |-> items]

----------------------------------------------------------------------------
(* str.endswith and str.replace *)

EndsWith(str, suffix) ==
    /\ Len(suffix) <= Len(str)
    /\ SubSeq(str, Len(str) - Len(suffix) + 1, Len(str)) = suffix

StartsWithAt(str, i, old) ==
    /\ i + Len(old) - 1 <= Len(str)
    /\ SubSeq(str, i, i + Len(old) - 1) = old

RECURSIVE ReplaceFrom(_, _, _, _)
ReplaceFrom(str, i, old, new) ==
    IF i > Len(str) THEN <<>>
    ELSE IF StartsWithAt(str, i, old)
         THEN new \o ReplaceFrom(str, i + Len(old), old, new)
         ELSE <<str[i]>> \o ReplaceFrom(str, i + 1, old, new)

(* str.replace(old, new) for a non-empty old: every non-overlapping         *)
(* occurrence, scanning from the left                                      *)
Replace(str, old, new) == ReplaceFrom(str, 1, old, new)

HeroPrefix == <<"h", "e", "r", "o", ".">>

(* hero_id.replace("hero.", "") *)
StripHero(chars) == Replace(chars, HeroPrefix, <<>>)

----------------------------------------------------------------------------
(* Records of the stream.  Every record is a dict; BlankMsg is the dict    *)
(* with no key at all.  None is the Python None a singleton bucket holds   *)
(* before a record is stored in it.                                        *)

NoUnit == [t |-> "absent", definitionId |-> Absent]
NullUnit == [t |-> "null", definitionId |-> Absent]
Unit(definitionId) == [t |-> "dict", definitionId |-> definitionId]

BlankMsg ==
    [py |-> "dict", type |-> Absent,
     id |-> Absent, displayName |-> Absent, username |-> Absent,
     allianceId |-> Absent, unlockedCities |-> AbsentList,
     unlocked |-> AbsentList, deck |-> AbsentList,
     allEquipment |-> AbsentList,
     relicDefinitionId |-> Absent, level |-> Absent,
     ageDefinitionId |-> Absent, supportingUnit |-> NoUnit,
     members |-> AbsentList,
     playerId |-> Absent, definitionId |-> Absent]

None == [BlankMsg EXCEPT !.py = "None"]

(* truth value of a bucket that holds None or a record: a dict is true     *)
(* when it has a key; every stored record has its "@type" key              *)
TruthyMsg(m) == m.py = "dict" /\ m # BlankMsg

(* the discriminator suffixes of classify_startup_messages *)
PlayerDTO == <<"P","l","a","y","e","r","D","T","O">>
HeroPush == <<"H","e","r","o","P","u","s","h">>
AllEquipmentUnitDataDTO ==
    <<"A","l","l","E","q","u","i","p","m","e","n","t","U","n","i","t",
      "D","a","t","a","D","T","O">>
RelicUnitDataDTO ==
    <<"R","e","l","i","c","U","n","i","t","D","a","t","a","D","T","O">>
CityDTO == <<"C","i","t","y","D","T","O">>
AllianceMembersResponse ==
    <<"A","l","l","i","a","n","c","e","M","e","m","b","e","r","s",
      "R","e","s","p","o","n","s","e">>
AllianceCityDTO ==
    <<"A","l","l","i","a","n","c","e","C","i","t","y","D","T","O">>

Suffixes ==
    {PlayerDTO, HeroPush, AllEquipmentUnitDataDTO, RelicUnitDataDTO, CityDTO,
     AllianceMembersResponse, AllianceCityDTO}

----------------------------------------------------------------------------
(* classify_startup_messages *)

NoError == "none"
NoStep == "none"
AttributeError == "AttributeError"
TypeError == "TypeError"
NoHeroPushError == "No HeroPush message found! Cannot build hero list."

Buckets(pl, hp, el, rl, ct, am, ac) ==
    [raw_playerdto |-> pl, raw_heropush |-> hp, raw_equipment_lists |-> el,
     raw_relic_lists |-> rl, raw_cities |-> ct, raw_alliance_members |-> am,
     raw_alliance_cities |-> ac]

(* EmptyBuckets keeping what the storages hold: nothing is reset *)
BucketsKept ==
    Buckets(raw_playerdto, raw_heropush, raw_equipment_lists, raw_relic_lists,
            raw_cities, raw_alliance_members, raw_alliance_cities)

(* the raw storages as the first lines of the method set them *)
EmptyBuckets == Buckets(None, None, <<>>, <<>>, <<>>, None, <<>>)

(* dto_type = msg.get("@type", "") *)
DtoType(msg) == GetDefault(msg.type, Str(<<>>))

(* dto_type.endswith(...) raises unless dto_type is a str *)
ClassifyRaises(msg) == DtoType(msg).t # "str"

(* ClassifyMsg without the `continue` of the CityDTO test: the record is   *)
(* tested against the suffixes that follow as well                         *)
ClassifyMsgFallThrough(b, msg) ==
    LET dto_type == DtoType(msg).s IN
    IF EndsWith(dto_type, PlayerDTO)
    THEN [b EXCEPT !.raw_playerdto = msg]
    ELSE IF EndsWith(dto_type, HeroPush)
    THEN [b EXCEPT !.raw_heropush = msg]
    ELSE IF EndsWith(dto_type, AllEquipmentUnitDataDTO)
    THEN IF msg.allEquipment.t # "absent"
         THEN [b EXCEPT !.raw_equipment_lists = Append(@, msg.allEquipment)]
         ELSE b
    ELSE IF EndsWith(dto_type, RelicUnitDataDTO)
    THEN [b EXCEPT !.raw_relic_lists = Append(@, msg)]
    ELSE LET c == IF EndsWith(dto_type, CityDTO)
                  THEN [b EXCEPT !.raw_cities = Append(@, msg)]
                  ELSE b
         IN IF EndsWith(dto_type, AllianceMembersResponse)
            THEN [c EXCEPT !.raw_alliance_members = msg]
            ELSE IF EndsWith(dto_type, AllianceCityDTO)
            THEN [c EXCEPT !.raw_alliance_cities = Append(@, msg)]
            ELSE c

(* ClassifyMsg keeping the first Player record instead of the last *)
ClassifyMsgFirstPlayer(b, msg) ==
    LET dto_type == DtoType(msg).s IN
    IF EndsWith(dto_type, PlayerDTO)
    THEN IF b.raw_playerdto = None THEN [b EXCEPT !.raw_playerdto = msg] ELSE b
    ELSE IF EndsWith(dto_type, HeroPush)
    THEN [b EXCEPT !.raw_heropush = msg]
    ELSE IF EndsWith(dto_type, AllEquipmentUnitDataDTO)
    THEN IF msg.allEquipment.t # "absent"
         THEN [b EXCEPT !.raw_equipment_lists = Append(@, msg.allEquipment)]
         ELSE b
    ELSE IF EndsWith(dto_type, RelicUnitDataDTO)
    THEN [b EXCEPT !.raw_relic_lists = Append(@, msg)]
    ELSE IF EndsWith(dto_type, CityDTO)
    THEN [b EXCEPT !.raw_cities = Append(@, msg)]
    ELSE IF EndsWith(dto_type, AllianceMembersResponse)
    THEN [b EXCEPT !.raw_alliance_members = msg]
    ELSE IF EndsWith(dto_type, AllianceCityDTO)
    THEN [b EXCEPT !.raw_alliance_cities = Append(@, msg)]
    ELSE b

(* ClassifyMsg storing an empty inner list for a record without the       *)
(* allEquipment key                                                        *)
ClassifyMsgAlwaysList(b, msg) ==
    LET dto_type == DtoType(msg).s IN
    IF EndsWith(dto_type, PlayerDTO)
    THEN [b EXCEPT !.raw_playerdto = msg]
    ELSE IF EndsWith(dto_type, HeroPush)
    THEN [b EXCEPT !.raw_heropush = msg]
    ELSE IF EndsWith(dto_type, AllEquipmentUnitDataDTO)
    THEN [b EXCEPT !.raw_equipment_lists =
                       Append(@, GetDefault(msg.allEquipment, List(<<>>)))]
    ELSE IF EndsWith(dto_type, RelicUnitDataDTO)
    THEN [b EXCEPT !.raw_relic_lists = Append(@, msg)]
    ELSE IF EndsWith(dto_type, CityDTO)
    THEN [b EXCEPT !.raw_cities = Append(@, msg)]
    ELSE IF EndsWith(dto_type, AllianceMembersResponse)
    THEN [b EXCEPT !.raw_alliance_members = msg]
    ELSE IF EndsWith(dto_type, AllianceCityDTO)
    THEN [b EXCEPT !.raw_alliance_cities = Append(@, msg)]
    ELSE b

(* ClassifyMsg skipping a relic record the bucket already holds *)
ClassifyMsgDedupRelics(b, msg) ==
    LET dto_type == DtoType(msg).s IN
    IF EndsWith(dto_type, PlayerDTO)
    THEN [b EXCEPT !.raw_playerdto = msg]
    ELSE IF EndsWith(dto_type, HeroPush)
    THEN [b EXCEPT !.raw_heropush = msg]
    ELSE IF EndsWith(dto_type, AllEquipmentUnitDataDTO)
    THEN IF msg.allEquipment.t # "absent"
         THEN [b EXCEPT !.raw_equipment_lists = Append(@, msg.allEquipment)]
         ELSE b
    ELSE IF EndsWith(dto_type, RelicUnitDataDTO)
    THEN IF \E i \in 1..Len(b.raw_relic_lists) : b.raw_relic_lists[i] = msg
         THEN b
         ELSE [b EXCEPT !.raw_relic_lists = Append(@, msg)]
    ELSE IF EndsWith(dto_type, CityDTO)
    THEN [b EXCEPT !.raw_cities = Append(@, msg)]
    ELSE IF EndsWith(dto_type, AllianceMembersResponse)
    THEN [b EXCEPT !.raw_alliance_members = msg]
    ELSE IF EndsWith(dto_type, AllianceCityDTO)
    THEN [b EXCEPT !.raw_alliance_cities = Append(@, msg)]
    ELSE b

(* the body of the loop for one record whose dto_type is a str: the first  *)
(* test that matches stores the record and continues                       *)
ClassifyMsg(b, msg) ==
    LET dto_type == DtoType(msg).s IN
    IF EndsWith(dto_type, PlayerDTO)
    THEN [b EXCEPT !.raw_playerdto = msg]
    ELSE IF EndsWith(dto_type, HeroPush)
    THEN [b EXCEPT !.raw_heropush = msg]
    ELSE IF EndsWith(dto_type, AllEquipmentUnitDataDTO)
    THEN IF msg.allEquipment.t # "absent"
         THEN [b EXCEPT !.raw_equipment_lists = Append(@, msg.allEquipment)]
         ELSE b
    ELSE IF EndsWith(dto_type, RelicUnitDataDTO)
    THEN [b EXCEPT !.raw_relic_lists = Append(@, msg)]
    ELSE IF EndsWith(dto_type, CityDTO)
    THEN [b EXCEPT !.raw_cities = Append(@, msg)]
    ELSE IF EndsWith(dto_type, AllianceMembersResponse)
    THEN [b EXCEPT !.raw_alliance_members = msg]
    ELSE IF EndsWith(dto_type, AllianceCityDTO)
    THEN [b EXCEPT !.raw_alliance_cities = Append(@, msg)]
    ELSE b

CurrentBuckets ==
    Buckets(raw_playerdto, raw_heropush, raw_equipment_lists, raw_relic_lists,
            raw_cities, raw_alliance_members, raw_alliance_cities)

SetBuckets(b) ==
    /\ raw_playerdto' = b.raw_playerdto
    /\ raw_heropush' = b.raw_heropush
    /\ raw_equipment_lists' = b.raw_equipment_lists
    /\ raw_relic_lists' = b.raw_relic_lists
    /\ raw_cities' = b.raw_cities
    /\ raw_alliance_members' = b.raw_alliance_members
    /\ raw_alliance_cities' = b.raw_alliance_cities

----------------------------------------------------------------------------
(* build_master_tables.  Each step returns [val, err]: val is what the     *)
(* model field holds when the step ends, err the exception that ended it   *)
(* (NoError when it ran to its end).                                       *)

Ok(val) == [val |-> val, err |-> NoError]
Raised(val, err) == [val |-> val, err |-> err]

(* 1. Player Profile *)
EmptyProfile ==
    [id |-> Absent, displayName |-> Absent, username |-> Absent,
     allianceId |-> Absent]

BuildProfile(playerdto) ==
    IF TruthyMsg(playerdto)
    THEN [id |-> Get(playerdto.id),
          displayName |-> Get(playerdto.displayName),
          username |-> Get(playerdto.username),
          allianceId |-> Get(playerdto.allianceId)]
    ELSE [id |-> Null, displayName |-> Null, username |-> Null,
          allianceId |-> Null]

(* 2. Heroes *)
(* HeroPushMissing raising only when the Player record is missing too *)
HeroPushMissingAndNoPlayer(heropush) ==
    ~TruthyMsg(heropush) /\ ~TruthyMsg(raw_playerdto)

(* if not self.raw_heropush: raise *)
HeroPushMissing(heropush) == ~TruthyMsg(heropush)

(* HeroName leaving the identifier as it is *)
HeroNameRaw(hero_id) == hero_id

(* hero_id.replace("hero.", "") if hero_id else None *)
HeroName(hero_id) ==
    IF Truthy(hero_id) THEN Str(StripHero(hero_id.s)) ELSE Null

(* a true hero_id that is not a str has no replace *)
HeroNameRaises(hero_id) == Truthy(hero_id) /\ hero_id.t # "str"

HeroEntry(h) ==
    [heroDefinitionId |-> Get(h.heroDefinitionId),
     name |-> HeroName(Get(h.heroDefinitionId)),
     level |-> Get(h.level),
     ascensionLevel |-> Get(h.ascensionLevel),
     abilityLevel |-> Get(h.abilityLevel),
     awakeningLevel |-> Get(h.awakeningLevel),
     abilityMasteryPoints |-> Get(h.abilityMasteryPoints),
     unlockedAt |-> Get(h.unlockedAt)]

RECURSIVE BuildHeroesFrom(_, _, _)
BuildHeroesFrom(unlocked, i, acc) ==
    IF i > Len(unlocked) THEN Ok(acc)
    ELSE IF HeroNameRaises(Get(unlocked[i].heroDefinitionId))
    THEN Raised(acc, AttributeError)
    ELSE BuildHeroesFrom(unlocked, i + 1, Append(acc, HeroEntry(unlocked[i])))

BuildHeroes(heropush) ==
    LET unlocked == GetDefault(heropush.unlocked, List(<<>>)) IN
    IF unlocked.t # "list" THEN Raised(<<>>, TypeError)
    ELSE BuildHeroesFrom(unlocked.items, 1, <<>>)

(* HeroSet collecting the display names instead of the identifiers *)
HeroSetOfNames(hs) == {hs[i].name : i \in 1..Len(hs)}

(* hero_set = {h["heroDefinitionId"] for h in self.heroes} *)
HeroSet(hs) == {hs[i].heroDefinitionId : i \in 1..Len(hs)}

(* 3. Decks *)
(* DeckHeroes keeping only the heroes of HeroPush.unlocked *)
DeckHeroesOwnedOnly(hids) ==
    LET hero_set == HeroSet(BuildHeroes(raw_heropush).val)
        IsOwned(hid) == hid \in hero_set
        kept == SelectSeq(hids, IsOwned)
    IN [j \in 1..Len(kept) |-> Str(StripHero(kept[j].s))]

DeckHeroes(hids) == [j \in 1..Len(hids) |-> Str(StripHero(hids[j].s))]

DeckEntry(d) ==
    [definitionId |-> Get(d.definitionId),
     heroes |-> DeckHeroes(GetDefault(d.heroDefinitionId, List(<<>>)).items)]

DeckRaises(d) ==
    LET hids == GetDefault(d.heroDefinitionId, List(<<>>)) IN
    IF hids.t # "list" THEN TypeError
    ELSE IF \E j \in 1..Len(hids.items) : hids.items[j].t # "str"
    THEN AttributeError
    ELSE NoError

RECURSIVE BuildDecksFrom(_, _, _)
BuildDecksFrom(deck_list, i, acc) ==
    IF i > Len(deck_list) THEN Ok(acc)
    ELSE IF DeckRaises(deck_list[i]) # NoError
    THEN Raised(acc, DeckRaises(deck_list[i]))
    ELSE BuildDecksFrom(deck_list, i + 1, Append(acc, DeckEntry(deck_list[i])))

BuildDecks(heropush) ==
    LET deck_list == GetDefault(heropush.deck, List(<<>>)) IN
    IF deck_list.t # "list" THEN Raised(<<>>, TypeError)
    ELSE BuildDecksFrom(deck_list.items, 1, <<>>)

(* a dict of lists, in insertion order: a sequence of [key, items] *)
HasKey(groups, key) == \E g \in 1..Len(groups) : groups[g].key = key

(* AppendToGroup starting the list of the key afresh at every item *)
AppendToGroupReplacing(groups, key, entry) ==
    IF \E g \in 1..Len(groups) : groups[g].key = key
    THEN [g \in 1..Len(groups) |->
            IF groups[g].key = key
            THEN [groups[g] EXCEPT !.items = <<entry>>]
            ELSE groups[g]]
    ELSE Append(groups, [key |-> key, items |-> <<entry>>])

(* if key not in d: d[key] = [] ; d[key].append(entry) *)
AppendToGroup(groups, key, entry) ==
    IF HasKey(groups, key)
    THEN [g \in 1..Len(groups) |->
            IF groups[g].key = key
            THEN [groups[g] EXCEPT !.items = Append(@, entry)]
            ELSE groups[g]]
    ELSE Append(groups, [key |-> key, items |-> <<entry>>])

(* 4. Equipment *)
EquipmentEntry(eq) ==
    [id |-> Get(eq.id),
     slot |-> Get(eq.equipmentSlotTypeDefinitionId),
     set |-> Get(eq.equipmentSetDefinitionId),
     rarity |-> Get(eq.equipmentRarityDefinitionId),
     level |-> Get(eq.level),
     mainAttribute |-> Get(eq.mainAttribute),
     subAttributes |-> GetDefault(eq.subAttributes, EmptyListValue)]

(* EquipmentKept without the membership test: no join against the heroes *)
EquipmentKeptNoJoin(hero_def, hero_set) == Truthy(hero_def)

(* if hero_def and hero_def in hero_set *)
EquipmentKept(hero_def, hero_set) == Truthy(hero_def) /\ hero_def \in hero_set

RECURSIVE BuildEquipGroup(_, _, _, _)
BuildEquipGroup(equip_group, i, hero_set, acc) ==
    IF i > Len(equip_group) THEN acc
    ELSE LET eq == equip_group[i]
             hero_def == Get(eq.equippedOnHeroDefinitionId)
         IN BuildEquipGroup(equip_group, i + 1, hero_set,
                IF EquipmentKept(hero_def, hero_set)
                THEN AppendToGroup(acc, Str(StripHero(hero_def.s)),
                                   EquipmentEntry(eq))
                ELSE acc)

RECURSIVE BuildEquipmentFrom(_, _, _, _)
BuildEquipmentFrom(lists, g, hero_set, acc) ==
    IF g > Len(lists) THEN Ok(acc)
    ELSE IF lists[g].t # "list" THEN Raised(acc, TypeError)
    ELSE BuildEquipmentFrom(lists, g + 1, hero_set,
             BuildEquipGroup(lists[g].items, 1, hero_set, acc))

BuildEquipment(lists, hero_set) == BuildEquipmentFrom(lists, 1, hero_set, <<>>)

(* 5. Relics *)
RelicEntry(relic_entry) ==
    [relicDefinitionId |-> Get(relic_entry.relicDefinitionId),
     level |-> Get(relic_entry.level),
     age |-> Get(relic_entry.ageDefinitionId)]

(* hero_def stays None unless the record has the supportingUnit key *)
RelicHero(relic_entry) ==
    IF relic_entry.supportingUnit.t # "absent"
    THEN Get(relic_entry.supportingUnit.definitionId)
    ELSE Null

(* RelicKept without the membership test: no join against the heroes *)
RelicKeptNoJoin(hero_def, hero_set) == Truthy(hero_def)

(* Only attach relics belonging to heroes you own *)
RelicKept(hero_def, hero_set) == Truthy(hero_def) /\ hero_def \in hero_set

RECURSIVE BuildRelicsFrom(_, _, _, _)
BuildRelicsFrom(relic_lists, i, hero_set, acc) ==
    IF i > Len(relic_lists) THEN Ok(acc)
    ELSE IF relic_lists[i].supportingUnit.t = "null"
    THEN Raised(acc, AttributeError)
    ELSE LET hero_def == RelicHero(relic_lists[i]) IN
         BuildRelicsFrom(relic_lists, i + 1, hero_set,
             IF RelicKept(hero_def, hero_set)
             THEN AppendToGroup(acc, Str(StripHero(hero_def.s)),
                                RelicEntry(relic_lists[i]))
             ELSE acc)

BuildRelics(relic_lists, hero_set) ==
    BuildRelicsFrom(relic_lists, 1, hero_set, <<>>)

(* 6. User cities, from the player record *)
CityEntry(c) ==
    [id |-> Get(c.id),
     definitionId |-> Get(c.definitionId),
     placedBuildingAmounts |-> GetDefault(c.placedBuildingAmounts, EmptyDictValue),
     buildingLimits |-> GetDefault(c.buildingLimits, EmptyDictValue)]

(* BuildCities reading the CityDTO bucket instead of the player record *)
BuildCitiesFromBucket(playerdto) ==
    Ok([i \in 1..Len(raw_cities) |->
            [id |-> Get(raw_cities[i].id),
             definitionId |-> Get(raw_cities[i].definitionId),
             placedBuildingAmounts |-> EmptyDictValue,
             buildingLimits |-> EmptyDictValue]])

BuildCities(playerdto) ==
    LET unlocked_cities ==
            IF TruthyMsg(playerdto)
            THEN GetDefault(playerdto.unlockedCities, List(<<>>))
            ELSE List(<<>>)
    IN IF unlocked_cities.t # "list" THEN Raised(<<>>, TypeError)
       ELSE Ok([i \in 1..Len(unlocked_cities.items) |->
                    CityEntry(unlocked_cities.items[i])])

(* 7. Alliance members *)
MemberEntry(m) ==
    [id |-> Get(m.playerId),
     name |-> Get(m.playerName),
     level |-> Get(m.level),
     power |-> Get(m.power),
     age |-> Get(m.ageDefinitionId)]

BuildAllianceMembers(members_msg) ==
    IF TruthyMsg(members_msg)
    THEN LET members == GetDefault(members_msg.members, List(<<>>)) IN
         IF members.t # "list" THEN Raised(<<>>, TypeError)
         ELSE Ok([i \in 1..Len(members.items) |-> MemberEntry(members.items[i])])
    ELSE Ok(<<>>)

(* 8. Alliance cities *)
AllianceCityEntry(ac) ==
    [id |-> Get(ac.id),
     ownerId |-> Get(ac.playerId),
     definitionId |-> Get(ac.definitionId)]

BuildAllianceCities(records) ==
    [i \in 1..Len(records) |-> AllianceCityEntry(records[i])]

----------------------------------------------------------------------------
(* The records a stream is drawn from.  Hero identifiers are strings, null *)
(* or missing; the elements of the nested lists are dicts.                 *)

Ns == <<"d", "t", "o", ".">>
TypeOf(suffix) == Str(Ns \o suffix)

hero_a == Str(<<"h","e","r","o",".","a">>)
hero_b == Str(<<"h","e","r","o",".","b">>)
hero_hero_b == Str(<<"h","e","r","o",".","h","e","r","o",".","b">>)
empty_id == Str(<<>>)
p1 == Str(<<"p","1">>)
p2 == Str(<<"p","2">>)

BlankHero ==
    [heroDefinitionId |-> Absent, level |-> Absent, ascensionLevel |-> Absent,
     abilityLevel |-> Absent, awakeningLevel |-> Absent,
     abilityMasteryPoints |-> Absent, unlockedAt |-> Absent]
Hero(hero_id, level) ==
    [BlankHero EXCEPT !.heroDefinitionId = hero_id, !.level = level]

Deck(definitionId, hids) ==
    [definitionId |-> definitionId, heroDefinitionId |-> hids]

BlankEquip ==
    [id |-> Absent, equippedOnHeroDefinitionId |-> Absent,
     equipmentSlotTypeDefinitionId |-> Absent,
     equipmentSetDefinitionId |-> Absent,
     equipmentRarityDefinitionId |-> Absent, level |-> Absent,
     mainAttribute |-> Absent, subAttributes |-> Absent]
Equip(id, hero_id) ==
    [BlankEquip EXCEPT !.id = id, !.equippedOnHeroDefinitionId = hero_id,
                       !.level = Num(1)]
(* an item whose mainAttribute is a dict *)
EquipMain(id, hero_id) ==
    [Equip(id, hero_id) EXCEPT !.mainAttribute = EmptyDictValue]

City(id, definitionId) ==
    [id |-> id, definitionId |-> definitionId,
     placedBuildingAmounts |-> Absent, buildingLimits |-> Absent]

Member(playerId, playerName) ==
    [playerId |-> playerId, playerName |-> playerName, level |-> Num(7),
     power |-> Absent, ageDefinitionId |-> Absent]

PlayerRecords ==
    { [BlankMsg EXCEPT !.type = TypeOf(PlayerDTO), !.id = p1,
                       !.displayName = Str(<<"A">>), !.username = Str(<<"u">>),
                       !.allianceId = Num(4),
                       !.unlockedCities = List(<<City(Num(1), Str(<<"c">>)),
                                                 City(Num(2), Absent)>>)],
      [BlankMsg EXCEPT !.type = TypeOf(PlayerDTO), !.id = p2,
                       !.displayName = Str(<<"B">>)],
      [BlankMsg EXCEPT !.type = TypeOf(PlayerDTO), !.id = p2,
                       !.username = Str(<<"v">>),
                       !.unlockedCities = List(<<>>)] }

HeroPushRecords ==
    { [BlankMsg EXCEPT !.type = TypeOf(HeroPush),
                       !.unlocked = List(<<Hero(hero_a, Num(5)),
                                           Hero(hero_a, Num(6))>>),
                       !.deck = List(<<Deck(Str(<<"d">>),
                                            List(<<hero_b, hero_a>>)),
                                       Deck(Absent, AbsentList)>>)],
      [BlankMsg EXCEPT !.type = TypeOf(HeroPush),
                       !.unlocked = List(<<Hero(empty_id, Num(1)),
                                           Hero(Absent, Absent),
                                           Hero(hero_b, Num(2)),
                                           Hero(hero_hero_b, Num(3))>>)],
      [BlankMsg EXCEPT !.type = TypeOf(HeroPush),
                       !.deck = List(<<Deck(Str(<<"e">>), List(<<>>))>>)] }

EquipmentRecords ==
    { [BlankMsg EXCEPT !.type = TypeOf(AllEquipmentUnitDataDTO),
                       !.allEquipment =
                           List(<<Equip(Num(1), hero_a),
                                  EquipMain(Num(2), hero_b),
                                  Equip(Num(3), Absent), Equip(Num(4), empty_id),
                                  Equip(Num(5), hero_a), Equip(Num(6), Null),
                                  EquipMain(Num(7), hero_hero_b)>>)],
      [BlankMsg EXCEPT !.type = TypeOf(AllEquipmentUnitDataDTO)] }

RelicRecords ==
    { [BlankMsg EXCEPT !.type = TypeOf(RelicUnitDataDTO),
                       !.relicDefinitionId = Str(<<"r">>), !.level = Num(3),
                       !.supportingUnit = Unit(hero_a)],
      [BlankMsg EXCEPT !.type = TypeOf(RelicUnitDataDTO),
                       !.relicDefinitionId = Str(<<"s">>),
                       !.supportingUnit = Unit(hero_b)],
      [BlankMsg EXCEPT !.type = TypeOf(RelicUnitDataDTO),
                       !.relicDefinitionId = Str(<<"t">>)],
      [BlankMsg EXCEPT !.type = TypeOf(RelicUnitDataDTO),
                       !.relicDefinitionId = Str(<<"u">>),
                       !.supportingUnit = Unit(empty_id)],
      [BlankMsg EXCEPT !.type = TypeOf(RelicUnitDataDTO),
                       !.relicDefinitionId = Str(<<"v">>),
                       !.supportingUnit = NullUnit] }

CityRecords ==
    { [BlankMsg EXCEPT !.type = TypeOf(CityDTO), !.id = Num(9),
                       !.definitionId = Str(<<"c">>)] }

AllianceMembersRecords ==
    { [BlankMsg EXCEPT !.type = TypeOf(AllianceMembersResponse),
                       !.members = List(<<Member(p1, Str(<<"A">>)),
                                          Member(p2, Absent)>>)] }

AllianceCityRecords ==
    { [BlankMsg EXCEPT !.type = TypeOf(AllianceCityDTO), !.id = Num(8),
                       !.playerId = p1, !.definitionId = Str(<<"c">>)] }

OtherRecords ==
    { [BlankMsg EXCEPT !.type = Str(Ns \o <<"F","o","o">>), !.id = Num(1)],
      [BlankMsg EXCEPT !.id = Num(2)],
      [BlankMsg EXCEPT !.type = Null] }

Records ==
    PlayerRecords \cup HeroPushRecords \cup EquipmentRecords \cup RelicRecords
    \cup CityRecords \cup AllianceMembersRecords \cup AllianceCityRecords
    \cup OtherRecords

Streams == UNION {[1..n -> Records] : n \in 0..MaxMsgs}

ShortStreams == UNION {[1..n -> Records] : n \in 0..MaxCallMsgs}

----------------------------------------------------------------------------
(* main() *)

(* the JSON payload of startup.json: whether it has rootContext, and the   *)
(* value of rootContext.messages                                           *)
WithMessages(stream) == [rootContext |-> "dict", messages |-> List(stream)]
NoMessagesKey == [rootContext |-> "dict", messages |-> AbsentList]
NoRootContext == [rootContext |-> "absent", messages |-> AbsentList]
NoStartup == [rootContext |-> "None", messages |-> AbsentList]
NoFile == [rootContext |-> "no file", messages |-> AbsentList]
(* main() has not returned *)
NoStatus == -1

(* self.session_data: None, or the answer of the play request with the     *)
(* client version added                                                    *)
NoSession == [sessionId |-> "None", clientVersion |-> "None"]
Session == [sessionId |-> "s", clientVersion |-> "v"]

(* HoHLocalAnalyzer.__init__.  The raw_* attributes do not exist until     *)
(* classify_startup_messages sets them; nothing reads them before.         *)
InitAnalyzer ==
    /\ pc = "start"
    /\ error = NoError
    /\ raised_at = NoStep
    /\ messages = <<>>
    /\ msg_index = 1
    /\ raw_playerdto = None
    /\ raw_heropush = None
    /\ raw_equipment_lists = <<>>
    /\ raw_relic_lists = <<>>
    /\ raw_cities = <<>>
    /\ raw_alliance_members = None
    /\ raw_alliance_cities = <<>>
    /\ player_info = EmptyProfile
    /\ heroes = <<>>
    /\ decks = <<>>
    /\ equipment = <<>>
    /\ relics = <<>>
    /\ cities = <<>>
    /\ alliance_members = <<>>
    /\ alliance_cities = <<>>
    /\ classify_calls = 0
    /\ consumed = {}
    /\ session_data = NoSession
    /\ startup = NoStartup
    /\ requests_sent = 0
    /\ exit_status = NoStatus

(* download_hoh_assets.py before process_urls is called *)
DownloaderIdle ==
    /\ urls = <<>>
    /\ max_workers = 1
    /\ dl_pc = "idle"
    /\ futures = <<>>
    /\ collected = {}
    /\ failed_downloads = <<>>
    /\ retry_index = 1
    /\ retry_running = FALSE
    /\ attempts = <<>>

(* a run that starts on an empty data_dir and downloads *)
Init ==
    /\ InitAnalyzer
    /\ files = {}
    /\ skip_download = FALSE
    /\ startup_file = NoFile
    /\ DownloaderIdle

(* analyzer.messages = the records of the startup payload *)
LoadStartup ==
    /\ pc = "start"
    /\ \E stream \in Streams :
           messages' = stream /\ startup' = WithMessages(stream)
    /\ pc' = "loaded"
    /\ UNCHANGED <<error, raised_at, msg_index, buckets, model,
                   classify_calls, outputs>>
    /\ UNCHANGED <<run, downloader>>

(* classify_startup_messages: the raw storages are reset *)
ClassifyReset ==
    /\ pc = "loaded"
    /\ SetBuckets(EmptyBuckets)
    /\ msg_index' = 1
    /\ pc' = "classifying"
    /\ classify_calls' = classify_calls + 1
    /\ UNCHANGED <<error, raised_at, messages, model, outputs>>
    /\ UNCHANGED <<startup, run, downloader>>

(* classify_startup_messages: one pass of the loop over self.messages *)
ClassifyLoop ==
    /\ pc = "classifying"
    /\ msg_index <= Len(messages)
    /\ IF ClassifyRaises(messages[msg_index])
       THEN /\ error' = AttributeError
            /\ raised_at' = "classify"
            /\ pc' = "failed"
            /\ UNCHANGED <<msg_index, buckets>>
       ELSE /\ SetBuckets(ClassifyMsg(CurrentBuckets, messages[msg_index]))
            /\ msg_index' = msg_index + 1
            /\ UNCHANGED <<pc, error, raised_at>>
    /\ UNCHANGED <<messages, model, classify_calls, outputs>>
    /\ UNCHANGED <<startup, run, downloader>>

(* classify_startup_messages: the loop is over *)
ClassifyDone ==
    /\ pc = "classifying"
    /\ msg_index > Len(messages)
    /\ pc' = "classified"
    /\ UNCHANGED <<error, raised_at, messages, msg_index, buckets, model,
                   classify_calls, outputs>>
    /\ UNCHANGED <<startup, run, downloader>>

(* the steps of build_master_tables after the HeroPush test, in order; a   *)
(* step runs when no step before it raised                                 *)
BuildSteps ==
    LET H == BuildHeroes(raw_heropush)
        hero_set == HeroSet(H.val)
    IN <<H,
         BuildDecks(raw_heropush),
         BuildEquipment(raw_equipment_lists, hero_set),
         BuildRelics(raw_relic_lists, hero_set),
         BuildCities(raw_playerdto),
         BuildAllianceMembers(raw_alliance_members),
         Ok(BuildAllianceCities(raw_alliance_cities))>>

Reached(steps, k) == \A j \in 1..(k - 1) : steps[j].err = NoError

StepNames ==
    <<"heroes", "decks", "equipment", "relics", "cities", "alliance_members",
      "alliance_cities">>

(* the step that raises, 0 when none does *)
FirstRaising(steps) ==
    IF \A k \in 1..Len(steps) : steps[k].err = NoError THEN 0
    ELSE CHOOSE k \in 1..Len(steps) :
             steps[k].err # NoError /\ Reached(steps, k)

build_master_tables ==
    /\ pc = "classified"
    /\ player_info' = BuildProfile(raw_playerdto)
    /\ IF HeroPushMissing(raw_heropush)
       THEN /\ error' = NoHeroPushError
            /\ raised_at' = "heropush"
            /\ pc' = "failed"
            /\ UNCHANGED <<heroes, decks, equipment, relics, cities,
                           alliance_members, alliance_cities>>
       ELSE LET steps == BuildSteps
                Field(k, old) == IF Reached(steps, k) THEN steps[k].val ELSE old
            IN /\ heroes' = Field(1, heroes)
               /\ decks' = Field(2, decks)
               /\ equipment' = Field(3, equipment)
               /\ relics' = Field(4, relics)
               /\ cities' = Field(5, cities)
               /\ alliance_members' = Field(6, alliance_members)
               /\ alliance_cities' = Field(7, alliance_cities)
               /\ IF FirstRaising(steps) = 0
                  THEN /\ pc' = "built"
                       /\ UNCHANGED <<error, raised_at>>
                  ELSE /\ pc' = "failed"
                       /\ error' = steps[FirstRaising(steps)].err
                       /\ raised_at' = StepNames[FirstRaising(steps)]
    /\ UNCHANGED <<messages, msg_index, buckets, classify_calls, outputs>>
    /\ UNCHANGED <<startup, run, downloader>>

Next ==
    \/ LoadStartup
    \/ ClassifyReset
    \/ ClassifyLoop
    \/ ClassifyDone
    \/ build_master_tables

Spec == Init /\ [][Next]_vars

----------------------------------------------------------------------------
(* The consumers of the model.  Each reads the model and the buckets and   *)
(* writes files under data_dir; none assigns an attribute of the analyzer. *)

(* the items of a dict of lists, in iteration order *)
RECURSIVE FlatItems(_)
FlatItems(groups) ==
    IF groups = <<>> THEN <<>>
    ELSE Head(groups).items \o FlatItems(Tail(groups))

(* the first error of a sequence of loop passes, NoError when none raises *)
FirstError(errs) ==
    IF \A i \in 1..Len(errs) : errs[i] = NoError THEN NoError
    ELSE errs[CHOOSE i \in 1..Len(errs) :
                  /\ errs[i] # NoError
                  /\ \A j \in 1..(i - 1) : errs[j] = NoError]

(* main_attr = eq.get("mainAttribute", {}); main_attr.get("statBoost", {}) *)
(* the built entry always has the key, so the default is never used        *)
CsvRowError(eq) ==
    IF eq.mainAttribute.t # "dict" THEN AttributeError ELSE NoError

(* the same two lines, then `for s in eq.get("subAttributes", [])` *)
DashboardRowError(eq) ==
    IF eq.mainAttribute.t # "dict" THEN AttributeError
    ELSE IF eq.subAttributes.t # "list" THEN TypeError
    ELSE NoError

(* buildings = c.get("placedBuildingAmounts", {}); buildings.items() *)
DashboardCityError(c) ==
    IF c.placedBuildingAmounts.t # "dict" THEN AttributeError ELSE NoError

(* sorted(self.heroes, key=lambda x: x["level"], reverse=True): the levels *)
(* are compared when there are two heroes or more                          *)
SortRaises(hs) ==
    /\ Len(hs) >= 2
    /\ ~ \/ \A i \in 1..Len(hs) : hs[i].level.t = "num"
         \/ \A i \in 1..Len(hs) : hs[i].level.t = "str"

(* a stable sort by level, highest first *)
RECURSIVE InsertByLevel(_, _)
InsertByLevel(h, sorted) ==
    IF sorted = <<>> THEN <<h>>
    ELSE IF Head(sorted).level.n >= h.level.n
    THEN <<Head(sorted)>> \o InsertByLevel(h, Tail(sorted))
    ELSE <<h>> \o sorted

RECURSIVE SortedByLevel(_, _)
SortedByLevel(hs, acc) ==
    IF hs = <<>> THEN acc
    ELSE SortedByLevel(Tail(hs), InsertByLevel(Head(hs), acc))

DashboardError ==
    LET items == FlatItems(equipment)
        rows == FirstError([i \in 1..Len(items) |-> DashboardRowError(items[i])])
    IN IF SortRaises(heroes) THEN TypeError
       ELSE IF rows # NoError THEN rows
       ELSE FirstError([i \in 1..Len(cities) |-> DashboardCityError(cities[i])])

ParsedFiles == {"parsed/parsed_raw_bundle.json",
                "parsed/parsed_master_bundle.json"}
AnalysisFile == "analysis/player_analysis.json"
DashboardFile == "analysis/dashboard.html"
CsvFiles ==
    <<"csv_exports/heroes.csv", "csv_exports/equipment.csv",
      "csv_exports/relics.csv", "csv_exports/decks.csv",
      "csv_exports/cities.csv", "csv_exports/alliance_members.csv">>

(* Called letting a consumer run after a failure as well *)
CalledAfterFailure(name) ==
    /\ pc \in {"built", "failed"}
    /\ name \notin consumed
    /\ consumed' = consumed \cup {name}

(* a consumer is called once the model is built *)
Called(name) ==
    /\ pc = "built"
    /\ name \notin consumed
    /\ consumed' = consumed \cup {name}

Returns == UNCHANGED <<pc, error, raised_at>>

Raises(name, err) ==
    /\ pc' = "failed"
    /\ error' = err
    /\ raised_at' = name

save_parsed_data ==
    /\ Called("save_parsed_data")
    /\ files' = files \cup ParsedFiles
    /\ Returns
    /\ UNCHANGED <<messages, msg_index, buckets, model, classify_calls>>
    /\ UNCHANGED <<startup, run, downloader>>

export_analysis_json ==
    /\ Called("export_analysis_json")
    /\ files' = files \cup {AnalysisFile}
    /\ Returns
    /\ UNCHANGED <<messages, msg_index, buckets, model, classify_calls>>
    /\ UNCHANGED <<startup, run, downloader>>

(* the six files are written one after the other; the equipment file is    *)
(* open when one of its rows raises                                        *)
export_to_csv_all ==
    /\ Called("export_to_csv_all")
    /\ LET items == FlatItems(equipment)
           err == FirstError([i \in 1..Len(items) |-> CsvRowError(items[i])])
       IN
       IF err # NoError
       THEN /\ files' = files \cup {CsvFiles[1], CsvFiles[2]}
            /\ Raises("export_to_csv_all", err)
       ELSE /\ files' = files \cup {CsvFiles[k] : k \in 1..Len(CsvFiles)}
            /\ Returns
    /\ UNCHANGED <<messages, msg_index, buckets, model, classify_calls>>
    /\ UNCHANGED <<startup, run, downloader>>

(* create_summary_dashboard with self.heroes.sort(...) in the place of     *)
(* sorted(self.heroes, ...)                                                *)
create_summary_dashboard_sorting ==
    /\ Called("create_summary_dashboard")
    /\ IF DashboardError # NoError
       THEN /\ Raises("create_summary_dashboard", DashboardError)
            /\ UNCHANGED files
       ELSE /\ files' = files \cup {DashboardFile}
            /\ Returns
    /\ heroes' = IF SortRaises(heroes) THEN heroes
                 ELSE SortedByLevel(heroes, <<>>)
    /\ UNCHANGED <<messages, msg_index, buckets, player_info, decks,
                   equipment, relics, cities, alliance_members,
                   alliance_cities, classify_calls>>
    /\ UNCHANGED <<startup, run, downloader>>

(* the page is written at the very end, when nothing raised *)
create_summary_dashboard ==
    /\ Called("create_summary_dashboard")
    /\ IF DashboardError # NoError
       THEN /\ Raises("create_summary_dashboard", DashboardError)
            /\ UNCHANGED files
       ELSE /\ files' = files \cup {DashboardFile}
            /\ Returns
    /\ UNCHANGED <<messages, msg_index, buckets, model, classify_calls>>
    /\ UNCHANGED <<startup, run, downloader>>

----------------------------------------------------------------------------
(* Directory setup, login and download. *)

StartupJson == "raw/startup.json"
StartupBin == "raw/startup.bin"

NotLoggedIn == "Not logged in"
MissingMessages == "Startup JSON missing rootContext.messages"
StartupNotFound == "startup.json not found - cannot skip download."
HTTPError == "HTTPError"
ClientVersionNotFound == "Client version not found."

(* the payloads the server answers with, or a file left by an earlier run  *)
(* holds                                                                   *)
Payloads ==
    {WithMessages(stream) : stream \in ShortStreams}
    \cup {NoMessagesKey, NoRootContext}

(* setup_directories: every entry of the four subfolders is unlinked; an   *)
(* entry whose unlink raises (a locked file) stays                         *)
setup_directories ==
    /\ pc = "start"
    /\ \E locked \in SUBSET files :
           /\ files' = locked
           /\ startup_file' = IF StartupJson \in locked THEN startup_file
                              ELSE NoFile
    /\ pc' = "ready"
    /\ UNCHANGED <<error, raised_at, messages, msg_index, buckets, model,
                   classify_calls, consumed, startup, skip_download,
                   session_data, requests_sent, exit_status, downloader>>

(* login: three requests one after the other; session_data is set when    *)
(* all three were answered and the page held the client version            *)
login ==
    /\ pc = "ready"
    /\ ~skip_download
    /\ session_data = NoSession
    /\ \/ /\ requests_sent' = requests_sent + 3
          /\ session_data' = Session
          /\ UNCHANGED <<pc, error, raised_at>>
       \/ /\ \E n \in 1..3 : requests_sent' = requests_sent + n
          /\ error' = HTTPError
          /\ raised_at' = "login"
          /\ pc' = "failed"
          /\ UNCHANGED session_data
       \/ /\ requests_sent' = requests_sent + 2
          /\ error' = ClientVersionNotFound
          /\ raised_at' = "login"
          /\ pc' = "failed"
          /\ UNCHANGED session_data
    /\ UNCHANGED <<messages, msg_index, buckets, model, classify_calls,
                   outputs, startup, skip_download, startup_file,
                   exit_status, downloader>>

(* api_headers raising in no case *)
ApiHeadersNeverRaise(sd) == FALSE

(* api_headers: if not self.session_data: raise Exception("Not logged in") *)
ApiHeadersRaise(sd) == sd = NoSession

(* fetch_startup: the headers are built before each request is sent; both  *)
(* answers are saved, then the JSON one is parsed                          *)
fetch_startup ==
    /\ pc = "ready"
    /\ IF ApiHeadersRaise(session_data)
       THEN /\ error' = NotLoggedIn
            /\ raised_at' = "fetch_startup"
            /\ pc' = "failed"
            /\ UNCHANGED <<messages, startup, startup_file, files,
                           requests_sent>>
       ELSE \/ /\ \E n \in 1..2 : requests_sent' = requests_sent + n
               /\ error' = HTTPError
               /\ raised_at' = "fetch_startup"
               /\ pc' = "failed"
               /\ UNCHANGED <<messages, startup, startup_file, files>>
            \/ \E payload \in Payloads :
                   /\ requests_sent' = requests_sent + 2
                   /\ files' = files \cup {StartupBin, StartupJson}
                   /\ startup_file' = payload
                   /\ startup' = payload
                   /\ IF /\ payload.rootContext # "absent"
                         /\ payload.messages.t # "absent"
                      THEN /\ messages' = payload.messages.items
                           /\ pc' = "loaded"
                           /\ UNCHANGED <<error, raised_at>>
                      ELSE /\ error' = MissingMessages
                           /\ raised_at' = "fetch_startup"
                           /\ pc' = "failed"
                           /\ UNCHANGED messages
    /\ UNCHANGED <<msg_index, buckets, model, classify_calls, consumed,
                   skip_download, session_data, exit_status, downloader>>

(* main with --skip-download: the file is looked for after the setup, and  *)
(* a payload without rootContext.messages gives an empty stream            *)
load_existing_startup ==
    /\ pc = "ready"
    /\ skip_download
    /\ IF startup_file = NoFile
       THEN /\ error' = StartupNotFound
            /\ raised_at' = "load"
            /\ pc' = "failed"
            /\ UNCHANGED <<messages, startup>>
       ELSE /\ startup' = startup_file
            /\ messages' = startup_file.messages.items
            /\ pc' = "loaded"
            /\ UNCHANGED <<error, raised_at>>
    /\ UNCHANGED <<msg_index, buckets, model, classify_calls, outputs, run,
                   downloader>>

----------------------------------------------------------------------------
(* The methods called by a client of the analyzer object: the classifier   *)
(* may be called again on the same stream, and the consumers in any order. *)

LoadShortStartup ==
    /\ pc = "start"
    /\ \E stream \in ShortStreams :
           messages' = stream /\ startup' = WithMessages(stream)
    /\ pc' = "loaded"
    /\ UNCHANGED <<error, raised_at, msg_index, buckets, model,
                   classify_calls, outputs>>
    /\ UNCHANGED <<run, downloader>>

(* ClassifyAgain emptying the parsed-data attributes as well *)
ClassifyAgainClearingModel ==
    /\ pc \in {"classified", "built"}
    /\ classify_calls < MaxClassifyCalls
    /\ SetBuckets(EmptyBuckets)
    /\ msg_index' = 1
    /\ pc' = "classifying"
    /\ classify_calls' = classify_calls + 1
    /\ player_info' = EmptyProfile
    /\ heroes' = <<>>
    /\ decks' = <<>>
    /\ equipment' = <<>>
    /\ relics' = <<>>
    /\ cities' = <<>>
    /\ alliance_members' = <<>>
    /\ alliance_cities' = <<>>
    /\ UNCHANGED <<error, raised_at, messages, outputs>>
    /\ UNCHANGED <<startup, run, downloader>>

(* classify_startup_messages called once more, before or after a build:   *)
(* the storages are reset                                                  *)
ClassifyAgain ==
    /\ pc \in {"classified", "built"}
    /\ classify_calls < MaxClassifyCalls
    /\ SetBuckets(EmptyBuckets)
    /\ msg_index' = 1
    /\ pc' = "classifying"
    /\ classify_calls' = classify_calls + 1
    /\ UNCHANGED <<error, raised_at, messages, model, outputs>>
    /\ UNCHANGED <<startup, run, downloader>>

----------------------------------------------------------------------------
(* main(), from the parsed arguments to the exit status. *)

ConsumerNames ==
    <<"save_parsed_data", "export_analysis_json", "export_to_csv_all",
      "create_summary_dashboard">>

(* the consumers called so far are the first k of main's order *)
ConsumedFirst(k) == consumed = {ConsumerNames[j] : j \in 1..k}

(* a run with --skip-download may find the file of an earlier run; a run   *)
(* that downloads starts on an empty data_dir                              *)
InitMain ==
    /\ InitAnalyzer
    /\ DownloaderIdle
    /\ skip_download \in BOOLEAN
    /\ IF skip_download
       THEN startup_file \in Payloads \cup {NoFile}
       ELSE startup_file = NoFile
    /\ files = IF startup_file = NoFile THEN {} ELSE {StartupJson}

main_fetch_startup ==
    /\ ~skip_download
    /\ session_data # NoSession
    /\ fetch_startup

main_save_parsed_data == ConsumedFirst(0) /\ save_parsed_data

main_export_analysis_json == ConsumedFirst(1) /\ export_analysis_json

main_export_to_csv_all == ConsumedFirst(2) /\ export_to_csv_all

main_create_summary_dashboard == ConsumedFirst(3) /\ create_summary_dashboard

(* return 0, after the summary is printed *)
main_return ==
    /\ pc = "built"
    /\ ConsumedFirst(4)
    /\ exit_status = NoStatus
    /\ exit_status' = 0
    /\ pc' = "done"
    /\ UNCHANGED <<error, raised_at, messages, msg_index, buckets, model,
                   classify_calls, outputs, startup, skip_download,
                   startup_file, session_data, requests_sent, downloader>>

(* except Exception: return 1 *)
main_except ==
    /\ pc = "failed"
    /\ exit_status = NoStatus
    /\ exit_status' = 1
    /\ UNCHANGED <<pc, error, raised_at, messages, msg_index, buckets, model,
                   classify_calls, outputs, startup, skip_download,
                   startup_file, session_data, requests_sent, downloader>>

NextMain ==
    \/ setup_directories
    \/ login
    \/ main_fetch_startup
    \/ load_existing_startup
    \/ ClassifyReset
    \/ ClassifyLoop
    \/ ClassifyDone
    \/ build_master_tables
    \/ main_save_parsed_data
    \/ main_export_analysis_json
    \/ main_export_to_csv_all
    \/ main_create_summary_dashboard
    \/ main_return
    \/ main_except

SpecMain == InitMain /\ [][NextMain]_vars

(* login and fetch_startup called by a client in either order *)
InitSession == Init

NextSession ==
    \/ setup_directories
    \/ login
    \/ fetch_startup

SpecSession == InitSession /\ [][NextSession]_vars

NextMethods ==
    \/ LoadShortStartup
    \/ ClassifyReset
    \/ ClassifyAgain
    \/ ClassifyLoop
    \/ ClassifyDone
    \/ build_master_tables
    \/ save_parsed_data
    \/ export_analysis_json
    \/ export_to_csv_all
    \/ create_summary_dashboard

SpecMethods == Init /\ [][NextMethods]_vars

----------------------------------------------------------------------------
(* download_hoh_assets.py.  The catalog is a sequence of bytes: NUL is the *)
(* zero byte, every other byte is its ASCII character.  The catalogs are   *)
(* made of the two markers and of bytes that occur in paths; none of them  *)
(* holds "?", "#" or ";", so that the path urlparse returns is the url     *)
(* from the first "/" after the host on.                                   *)

MaxChunks == 4

MaxWorkers == 2

NUL == "NUL"

cdn_root ==
    <<"h", "t", "t", "p", "s", ":", "/", "/", "h", "e", "c", "z", "z", ".",
      "i", "n", "n", "o", "g", "a", "m", "e", "s", "c", "d", "n", ".", "c",
      "o", "m", "/", "b", "u", "n", "d", "l", "e", "s", "/", "W", "e", "b",
      "G", "L", "/">>

(* bytes.fromhex('00 00 00') *)
data_url_prefix == <<NUL, NUL, NUL>>

end_marker ==
    <<".", "b", "u", "n", "d", "l", "e">>

files_to_skip == {<<"v", "f", "x">>, <<"p", "f", "x">>}

files_to_download == {}

(* bytes.find(sub, start), positions counted from 1, 0 when not found *)
Find(data, sub, start) ==
    LET hits == {p \in start..Len(data) : StartsWithAt(data, p, sub)} IN
    IF hits = {} THEN 0 ELSE CHOOSE p \in hits : \A q \in hits : p <= q

(* bytes.rfind(sub, 0, end): the last match that ends before position end *)
RFind(data, sub, end) ==
    LET hits == {p \in 1..Len(data) :
                     StartsWithAt(data, p, sub) /\ p + Len(sub) - 1 < end}
    IN IF hits = {} THEN 0 ELSE CHOOSE p \in hits : \A q \in hits : p >= q

(* parsed_url.path[parsed_url.path.rfind('/') + 1:] *)
FileName(url) ==
    LET slashes == {p \in 1..Len(url) : url[p] = "/"}
        last == IF slashes = {} THEN 0
                ELSE CHOOSE p \in slashes : \A q \in slashes : p >= q
    IN SubSeq(url, last + 1, Len(url))

should_download(url) ==
    LET filename == FileName(url) IN
    IF files_to_download # {}
    THEN \E download_str \in files_to_download :
             \E p \in 1..Len(filename) : StartsWithAt(filename, p, download_str)
    ELSE \A skip_str \in files_to_skip : ~StartsWithAt(filename, 1, skip_str)

(* the while loop of parse_binary_file, search_start counted from 1 *)
RECURSIVE ParseFrom(_, _, _)
ParseFrom(data, search_start, results) ==
    LET end_pos == Find(data, end_marker, search_start) IN
    IF end_pos = 0 THEN results
    ELSE LET start_pos == RFind(data, data_url_prefix, end_pos)
             content == SubSeq(data, start_pos + Len(data_url_prefix),
                               end_pos + Len(end_marker) - 1)
             url == cdn_root \o content
         IN ParseFrom(data, end_pos + Len(end_marker),
                IF start_pos # 0 /\ should_download(url)
                THEN Append(results, url)
                ELSE results)

parse_binary_file(data) == ParseFrom(data, 1, <<>>)

(* what a catalog is made of *)
Chunks ==
    {data_url_prefix, end_marker, <<"/">>, <<"a">>, <<"v", "f", "x">>}

RECURSIVE Concat(_)
Concat(chunks) ==
    IF chunks = <<>> THEN <<>> ELSE Head(chunks) \o Concat(Tail(chunks))

Catalogs ==
    {Concat(chunks) : chunks \in UNION {[1..n -> Chunks] : n \in 0..MaxChunks}}

(* the return value of download_file *)
Downloaded ==
    <<"D", "o", "w", "n", "l", "o", "a", "d", "e", "d", ":", " ">>
FailedToDownload ==
    <<"F", "a", "i", "l", "e", "d", " ", "t", "o", " ", "d", "o", "w", "n",
      "l", "o", "a", "d", ":", " ">>
ErrorDownloading ==
    <<"E", "r", "r", "o", "r", " ", "d", "o", "w", "n", "l", "o", "a", "d",
      "i", "n", "g", " ">>
(* ": " and the text of the exception *)
ErrorText == <<":", " ", "e">>

ResultOf(state, url) ==
    IF state = "downloaded" THEN Downloaded \o url
    ELSE IF state = "failed" THEN FailedToDownload \o url
    ELSE ErrorDownloading \o url \o ErrorText

Finished == {"downloaded", "failed", "error"}

(* the downloads a worker of the pool is running *)
InFlight == {i \in 1..Len(futures) : futures[i] \in {"requesting", "writing"}}

analyzer == <<pc, error, raised_at, messages, msg_index, buckets, model,
              classify_calls, outputs, startup, run>>

(* main: the urls of the catalog are submitted to a new pool *)
process_urls ==
    /\ dl_pc = "idle"
    /\ \E data \in Catalogs :
           /\ urls' = parse_binary_file(data)
           /\ futures' = [i \in 1..Len(parse_binary_file(data)) |-> "pending"]
    /\ \E n \in 1..MaxWorkers : max_workers' = n
    /\ dl_pc' = "pool"
    /\ UNCHANGED <<collected, failed_downloads, retry_index, retry_running,
                   attempts, analyzer>>

(* WorkerStart without the limit of the pool *)
WorkerStartUnbounded(i) ==
    /\ dl_pc = "pool"
    /\ futures[i] = "pending"
    /\ \A j \in 1..(i - 1) : futures[j] # "pending"
    /\ futures' = [futures EXCEPT ![i] = "requesting"]
    /\ attempts' = Append(attempts, urls[i])
    /\ UNCHANGED <<urls, max_workers, dl_pc, collected, failed_downloads,
                   retry_index, retry_running, analyzer>>

(* a free worker takes the oldest submitted call and sends the request *)
WorkerStart(i) ==
    /\ dl_pc = "pool"
    /\ futures[i] = "pending"
    /\ \A j \in 1..(i - 1) : futures[j] # "pending"
    /\ Cardinality(InFlight) < max_workers
    /\ futures' = [futures EXCEPT ![i] = "requesting"]
    /\ attempts' = Append(attempts, urls[i])
    /\ UNCHANGED <<urls, max_workers, dl_pc, collected, failed_downloads,
                   retry_index, retry_running, analyzer>>

(* the answer: status 200 and the file is opened, another status, or an    *)
(* exception                                                               *)
Respond(i) ==
    /\ futures[i] = "requesting"
    /\ \E next \in {"writing", "failed", "error"} :
           futures' = [futures EXCEPT ![i] = next]
    /\ UNCHANGED <<urls, max_workers, dl_pc, collected, failed_downloads,
                   retry_index, retry_running, attempts, analyzer>>

(* the last chunk is written and the file closed, or a read or write raised *)
FinishWrite(i) ==
    /\ futures[i] = "writing"
    /\ \E next \in {"downloaded", "error"} :
           futures' = [futures EXCEPT ![i] = next]
    /\ UNCHANGED <<urls, max_workers, dl_pc, collected, failed_downloads,
                   retry_index, retry_running, attempts, analyzer>>

(* one pass of `for future in as_completed(future_to_url)` *)
Collect(i) ==
    /\ dl_pc = "pool"
    /\ futures[i] \in Finished
    /\ i \notin collected
    /\ collected' = collected \cup {i}
    /\ LET result == ResultOf(futures[i], urls[i]) IN
       failed_downloads' =
           IF StartsWithAt(result, 1, <<"D", "o", "w", "n", "l", "o", "a",
                                        "d", "e", "d">>)
           THEN failed_downloads
           ELSE Append(failed_downloads, result)
    /\ UNCHANGED <<urls, max_workers, dl_pc, futures, retry_index,
                   retry_running, attempts, analyzer>>

(* the loop is over and the with block is left: the pool is shut down *)
PoolExit ==
    /\ dl_pc = "pool"
    /\ collected = 1..Len(futures)
    /\ dl_pc' = "retry"
    /\ retry_index' = 1
    /\ UNCHANGED <<urls, max_workers, futures, collected, failed_downloads,
                   retry_running, attempts, analyzer>>

(* download_file(failed_url): failed_url is an element of failed_downloads *)
RetryStart ==
    /\ dl_pc = "retry"
    /\ ~retry_running
    /\ retry_index <= Len(failed_downloads)
    /\ attempts' = Append(attempts, failed_downloads[retry_index])
    /\ retry_running' = TRUE
    /\ UNCHANGED <<urls, max_workers, dl_pc, futures, collected,
                   failed_downloads, retry_index, analyzer>>

(* requests.get raises on a string that does not begin with a scheme it    *)
(* has an adapter for; download_file returns the error text, it is printed *)
RetryFinish ==
    /\ dl_pc = "retry"
    /\ retry_running
    /\ retry_running' = FALSE
    /\ retry_index' = retry_index + 1
    /\ UNCHANGED <<urls, max_workers, dl_pc, futures, collected,
                   failed_downloads, attempts, analyzer>>

RetryDone ==
    /\ dl_pc = "retry"
    /\ ~retry_running
    /\ retry_index > Len(failed_downloads)
    /\ dl_pc' = "done"
    /\ UNCHANGED <<urls, max_workers, futures, collected, failed_downloads,
                   retry_index, retry_running, attempts, analyzer>>

NextDownloader ==
    \/ process_urls
    \/ \E i \in 1..Len(futures) : WorkerStart(i)
    \/ \E i \in 1..Len(futures) : Respond(i)
    \/ \E i \in 1..Len(futures) : FinishWrite(i)
    \/ \E i \in 1..Len(futures) : Collect(i)
    \/ PoolExit
    \/ RetryStart
    \/ RetryFinish
    \/ RetryDone

SpecDownloader == Init /\ [][NextDownloader]_vars

----------------------------------------------------------------------------
(* What the properties below read off the stream itself. *)

HasSuffix(msg, suffix) == msg.type.t = "str" /\ EndsWith(msg.type.s, suffix)

(* the discriminator is a string (a missing one reads as "") that ends     *)
(* with none of the known suffixes                                         *)
NoKnownSuffix(msg) ==
    /\ msg.type.t \in {"str", "absent"}
    /\ \A suffix \in Suffixes : ~HasSuffix(msg, suffix)

Positions(suffix) ==
    {i \in 1..Len(messages) : HasSuffix(messages[i], suffix)}

WithSuffix(suffix) ==
    LET Test(msg) == HasSuffix(msg, suffix) IN SelectSeq(messages, Test)

Last(seq) == seq[Len(seq)]

(* classify_startup_messages returned *)
Classified ==
    pc \in {"classified", "built"} \/ (pc = "failed" /\ raised_at # "classify")

(* build_master_tables was called and has returned or raised *)
BuildCalled == pc = "built" \/ (pc = "failed" /\ raised_at # "classify")

ChangedBuckets ==
    Cardinality({k \in 1..Len(buckets) : buckets[k] # buckets'[k]})

----------------------------------------------------------------------------
(* C1: once the stream is classified, raw_alliance_cities holds as many    *)
(* entries as the stream has records whose @type ends with                 *)
(* "AllianceCityDTO", and none of those records is in raw_cities.          *)
C1_AllianceCityRouted ==
    Classified =>
        /\ Len(raw_alliance_cities) = Cardinality(Positions(AllianceCityDTO))
        /\ \A i \in 1..Len(raw_cities) :
               ~HasSuffix(raw_cities[i], AllianceCityDTO)

(* C2: every pass of the classifier loop changes at most one bucket, and   *)
(* a record whose discriminator ends with no known suffix changes no       *)
(* bucket and raises nothing.                                              *)
C2_AtMostOneBucket ==
    [][ClassifyLoop =>
        /\ ChangedBuckets <= 1
        /\ NoKnownSuffix(messages[msg_index]) =>
               /\ UNCHANGED buckets
               /\ error' = NoError
               /\ pc' = "classifying"]_vars

C2_Witness ==
    /\ pc = "classified"
    /\ \E i \in 1..Len(messages) : NoKnownSuffix(messages[i])
    /\ \E i \in 1..Len(messages) : messages[i].type = Absent
    /\ Len(raw_cities) > 0

C4_NoHeroPushIsFatal ==
    Positions(HeroPush) = {} =>
        /\ pc # "built"
        /\ BuildCalled => (pc = "failed" /\ error = NoHeroPushError)

C4_Witness ==
    /\ BuildCalled
    /\ Positions(HeroPush) = {}
    /\ error = NoHeroPushError
    /\ TruthyMsg(raw_playerdto)
    /\ Len(raw_relic_lists) > 0

(* C5: when build_master_tables aborts on the missing HeroPush record,     *)
(* each of the eight model fields holds the value it had before the call,  *)
(* which is the value the constructor gave it.                             *)
C5_AbortLeavesModel ==
    error = NoHeroPushError =>
        /\ player_info = EmptyProfile
        /\ heroes = <<>>
        /\ decks = <<>>
        /\ equipment = <<>>
        /\ relics = <<>>
        /\ cities = <<>>
        /\ alliance_members = <<>>
        /\ alliance_cities = <<>>

----------------------------------------------------------------------------
(* The joins, read off the stream and the buckets. *)

(* the identifiers of HeroPush.unlocked, as dict.get returns them *)
OwnedIds ==
    LET unlocked == Last(WithSuffix(HeroPush)).unlocked.items IN
    {Get(unlocked[i].heroDefinitionId) : i \in 1..Len(unlocked)}

(* a str that is not empty *)
NonEmptyId(v) == v.t = "str" /\ v.s # <<>>

(* every item of every inner list of the EquipmentLists bucket *)
RawEquipmentItems ==
    UNION {{raw_equipment_lists[g].items[j] :
                j \in 1..Len(raw_equipment_lists[g].items)} :
           g \in 1..Len(raw_equipment_lists)}

InEquipment(eq) ==
    \E g \in 1..Len(equipment) : \E j \in 1..Len(equipment[g].items) :
        equipment[g].items[j] = EquipmentEntry(eq)

InRelics(relic_entry) ==
    \E g \in 1..Len(relics) : \E j \in 1..Len(relics[g].items) :
        relics[g].items[j] = RelicEntry(relic_entry)

(* C6, as stated: in a built model an equipment item of the bucket appears *)
(* in the equipment mapping iff its equippedOnHeroDefinitionId is in the   *)
(* set of identifiers of HeroPush.unlocked, the empty string and the null  *)
(* identifier included.                                                    *)
C6_EquipmentIffOwned ==
    pc = "built" =>
        \A eq \in RawEquipmentItems :
            InEquipment(eq) <=> Get(eq.equippedOnHeroDefinitionId) \in OwnedIds

(* C6, amended: in a built model an equipment item of the bucket appears   *)
(* in the equipment mapping iff its equippedOnHeroDefinitionId is a        *)
(* non-empty string that is in the set of identifiers of                   *)
(* HeroPush.unlocked; an item whose identifier is null, missing or empty   *)
(* is dropped even when an unlocked hero holds that identifier.            *)
C6_EquipmentIffOwnedNonEmpty ==
    pc = "built" =>
        \A eq \in RawEquipmentItems :
            InEquipment(eq) <=>
                /\ NonEmptyId(Get(eq.equippedOnHeroDefinitionId))
                /\ Get(eq.equippedOnHeroDefinitionId) \in OwnedIds

C6_Witness ==
    /\ pc = "built"
    /\ Null \in OwnedIds
    /\ \E eq \in RawEquipmentItems :
           Get(eq.equippedOnHeroDefinitionId) = Null /\ ~InEquipment(eq)
    /\ \E eq \in RawEquipmentItems :
           Get(eq.equippedOnHeroDefinitionId) = hero_b /\ InEquipment(eq)
    /\ \E eq \in RawEquipmentItems :
           Get(eq.equippedOnHeroDefinitionId) = hero_a /\ ~InEquipment(eq)

(* C7, as stated: in a built model a relic record of the bucket appears in *)
(* the relics mapping iff it has a supportingUnit whose definitionId is in *)
(* the set of identifiers of HeroPush.unlocked.                            *)
C7_RelicIffOwned ==
    pc = "built" =>
        \A i \in 1..Len(raw_relic_lists) :
            InRelics(raw_relic_lists[i]) <=>
                /\ raw_relic_lists[i].supportingUnit.t = "dict"
                /\ raw_relic_lists[i].supportingUnit.definitionId.t # "absent"
                /\ raw_relic_lists[i].supportingUnit.definitionId \in OwnedIds

(* C7, amended: in a built model a relic record of the bucket appears in   *)
(* the relics mapping iff it has a supportingUnit whose definitionId is a  *)
(* non-empty string in the set of identifiers of HeroPush.unlocked; and    *)
(* the relic step raises only on a record whose supportingUnit key is      *)
(* present and is not a dict, never on a record without the key.           *)
C7_RelicIffOwnedNonEmpty ==
    /\ pc = "built" =>
        \A i \in 1..Len(raw_relic_lists) :
            InRelics(raw_relic_lists[i]) <=>
                /\ raw_relic_lists[i].supportingUnit.t = "dict"
                /\ NonEmptyId(raw_relic_lists[i].supportingUnit.definitionId)
                /\ raw_relic_lists[i].supportingUnit.definitionId \in OwnedIds
    /\ raised_at = "relics" =>
        \E i \in 1..Len(raw_relic_lists) :
            raw_relic_lists[i].supportingUnit.t \notin {"absent", "dict"}

C7_Witness ==
    /\ pc = "built"
    /\ \E i \in 1..Len(raw_relic_lists) :
           /\ raw_relic_lists[i].supportingUnit.t = "absent"
           /\ ~InRelics(raw_relic_lists[i])
    /\ \E i \in 1..Len(raw_relic_lists) :
           /\ raw_relic_lists[i].supportingUnit.t = "dict"
           /\ InRelics(raw_relic_lists[i])

(* C8: a built model has one deck per element of HeroPush.deck, in order,  *)
(* and the heroes of each deck are the display forms of the raw            *)
(* heroDefinitionId list, one for one and in order, whether or not the     *)
(* hero is in HeroPush.unlocked.                                           *)
C8_DeckPassthrough ==
    pc = "built" =>
        LET deck_list == Last(WithSuffix(HeroPush)).deck.items IN
        /\ Len(decks) = Len(deck_list)
        /\ \A i \in 1..Len(deck_list) :
               LET hids == deck_list[i].heroDefinitionId.items IN
               /\ decks[i].definitionId = Get(deck_list[i].definitionId)
               /\ Len(decks[i].heroes) = Len(hids)
               /\ \A j \in 1..Len(hids) :
                      decks[i].heroes[j] = Str(StripHero(hids[j].s))

C8_Witness ==
    /\ pc = "built"
    /\ hero_b \notin OwnedIds
    /\ \E i \in 1..Len(decks) : \E j \in 1..Len(decks[i].heroes) :
           /\ Last(WithSuffix(HeroPush)).deck.items[i].heroDefinitionId.items[j]
                  = hero_b
           /\ decks[i].heroes[j] = Str(<<"b">>)

(* C9: the cities of a built model are the projections of the elements of  *)
(* the last Player record's unlockedCities, one for one and in order,      *)
(* whatever the CityDTO bucket holds; without a Player record, or with an  *)
(* empty or missing unlockedCities, cities is empty.                       *)
C9_CitiesFromPlayerOnly ==
    pc = "built" =>
        IF Positions(PlayerDTO) = {} THEN cities = <<>>
        ELSE LET unlocked_cities ==
                     Last(WithSuffix(PlayerDTO)).unlockedCities.items
             IN /\ Len(cities) = Len(unlocked_cities)
                /\ \A i \in 1..Len(unlocked_cities) :
                       /\ cities[i].id = Get(unlocked_cities[i].id)
                       /\ cities[i].definitionId =
                              Get(unlocked_cities[i].definitionId)

C9_Witness ==
    /\ pc = "built"
    /\ Len(raw_cities) > 0
    /\ TruthyMsg(raw_playerdto)
    /\ raw_playerdto.unlockedCities = List(<<>>)
    /\ cities = <<>>

----------------------------------------------------------------------------
(* The dispatch rule, read off the stream: the suffixes in the order they  *)
(* are tested; a record goes with the first suffix its discriminator ends  *)
(* with.                                                                   *)

RuleOrder ==
    <<PlayerDTO, HeroPush, AllEquipmentUnitDataDTO, RelicUnitDataDTO, CityDTO,
      AllianceMembersResponse, AllianceCityDTO>>

FirstRule(msg) ==
    IF \A k \in 1..Len(RuleOrder) : ~HasSuffix(msg, RuleOrder[k]) THEN 0
    ELSE CHOOSE k \in 1..Len(RuleOrder) :
             /\ HasSuffix(msg, RuleOrder[k])
             /\ \A j \in 1..(k - 1) : ~HasSuffix(msg, RuleOrder[j])

(* the records the loop has gone through, once the method was entered *)
Processed == SubSeq(messages, 1, msg_index - 1)

RoutedBy(rule) ==
    LET Test(msg) == FirstRule(msg) = rule IN SelectSeq(Processed, Test)

(* C11: classify_startup_messages never raises, whatever the stream holds: *)
(* a record without @type, with a null @type or with other keys missing is *)
(* stored or dropped.                                                      *)
C11_ClassifyNeverRaises == raised_at # "classify"

(* C14, as stated: once the stream is classified, raw_equipment_lists has  *)
(* one inner list per AllEquipmentUnitDataDTO record of the stream, the    *)
(* records without the allEquipment key included.                          *)
C14_OneListPerRecord ==
    Classified =>
        Len(raw_equipment_lists) =
            Cardinality(Positions(AllEquipmentUnitDataDTO))

(* C14, amended: once the stream is classified, raw_equipment_lists has    *)
(* one inner list per AllEquipmentUnitDataDTO record that has the          *)
(* allEquipment key, in stream order; a record without the key adds        *)
(* nothing.                                                                *)
C14_OneListPerRecordWithKey ==
    Classified =>
        LET HasKeyAt(i) == messages[i].allEquipment.t # "absent"
            with_key == WithSuffix(AllEquipmentUnitDataDTO)
            HasList(msg) == msg.allEquipment.t # "absent"
            kept == SelectSeq(with_key, HasList)
        IN /\ Len(raw_equipment_lists) =
                  Cardinality({i \in Positions(AllEquipmentUnitDataDTO) :
                                   HasKeyAt(i)})
           /\ Len(raw_equipment_lists) = Len(kept)
           /\ \A i \in 1..Len(kept) :
                  raw_equipment_lists[i] = kept[i].allEquipment

C14_Witness ==
    /\ pc = "classified"
    /\ Cardinality(Positions(AllEquipmentUnitDataDTO)) = 3
    /\ Len(raw_equipment_lists) = 2
    /\ messages[2].allEquipment.t = "absent"

(* C15: from the moment the classifier is entered, each list bucket holds  *)
(* the records gone through so far that were routed to it, in stream       *)
(* order and as often as they occur in the stream.                         *)
C15_ListBucketsInStreamOrder ==
    pc \notin {"start", "loaded"} =>
        /\ raw_relic_lists = RoutedBy(4)
        /\ raw_cities = RoutedBy(5)
        /\ raw_alliance_cities = RoutedBy(7)
        /\ LET HasList(msg) == msg.allEquipment.t # "absent"
               kept == SelectSeq(RoutedBy(3), HasList)
           IN raw_equipment_lists =
                  [i \in 1..Len(kept) |-> kept[i].allEquipment]

C15_Witness ==
    /\ pc = "classified"
    /\ Len(raw_relic_lists) = 3
    /\ raw_relic_lists[1] = raw_relic_lists[3]
    /\ raw_relic_lists[1] # raw_relic_lists[2]
    /\ raw_relic_lists = messages

----------------------------------------------------------------------------
(* The build, read off the stream. *)

(* HeroPush.unlocked of the last HeroPush record, [] when the key is absent *)
Unlocked == Last(WithSuffix(HeroPush)).unlocked.items

(* chars without a leading "hero.", and otherwise as it is *)
StripPrefix(chars) ==
    IF StartsWithAt(chars, 1, HeroPrefix)
    THEN SubSeq(chars, Len(HeroPrefix) + 1, Len(chars))
    ELSE chars

(* C12: with a HeroPush record in the bucket, build_master_tables runs to  *)
(* its end whatever the buckets hold: an absent or null unlocked, deck,    *)
(* deck hero list, supportingUnit, members or unlockedCities reads as      *)
(* null or empty, and nothing but the missing HeroPush makes it raise.     *)
C12_OnlyHeroPushIsFatal ==
    (BuildCalled /\ TruthyMsg(raw_heropush)) => pc = "built"

(* C13: in a built model no two entries of heroes have the same            *)
(* heroDefinitionId, whatever HeroPush.unlocked holds.                     *)
C13_HeroIdsUnique ==
    pc = "built" =>
        \A i, j \in 1..Len(heroes) :
            heroes[i].heroDefinitionId = heroes[j].heroDefinitionId => i = j

(* C16: when the stream has a HeroPush record and no Player record, build  *)
(* runs to its end, the four fields of the profile are null and cities is  *)
(* empty.                                                                  *)
C16_NoPlayerIsNotFatal ==
    (BuildCalled /\ Positions(PlayerDTO) = {} /\ Positions(HeroPush) # {}) =>
        /\ pc = "built"
        /\ player_info = [id |-> Null, displayName |-> Null,
                          username |-> Null, allianceId |-> Null]
        /\ cities = <<>>

(* C17: a built model has one hero per element of HeroPush.unlocked, in    *)
(* list order, and the equipment and relic joins kept exactly the items    *)
(* whose non-empty hero identifier is the heroDefinitionId of one of those *)
(* hero entries.                                                           *)
C17_OneHeroPerUnlocked ==
    pc = "built" =>
        LET ids == {heroes[i].heroDefinitionId : i \in 1..Len(heroes)} IN
        /\ Len(heroes) = Len(Unlocked)
        /\ \A i \in 1..Len(heroes) :
               /\ heroes[i].heroDefinitionId = Get(Unlocked[i].heroDefinitionId)
               /\ heroes[i].level = Get(Unlocked[i].level)
        /\ \A eq \in RawEquipmentItems :
               InEquipment(eq) <=>
                   /\ NonEmptyId(Get(eq.equippedOnHeroDefinitionId))
                   /\ Get(eq.equippedOnHeroDefinitionId) \in ids
        /\ \A r \in 1..Len(raw_relic_lists) :
               InRelics(raw_relic_lists[r]) <=>
                   /\ NonEmptyId(RelicHero(raw_relic_lists[r]))
                   /\ RelicHero(raw_relic_lists[r]) \in ids

C17_Witness ==
    /\ pc = "built"
    /\ Len(heroes) = 4
    /\ heroes[2].heroDefinitionId = Null
    /\ heroes[3].heroDefinitionId = hero_b
    /\ \E eq \in RawEquipmentItems :
           Get(eq.equippedOnHeroDefinitionId) = hero_b /\ InEquipment(eq)
    /\ \E eq \in RawEquipmentItems :
           Get(eq.equippedOnHeroDefinitionId) = hero_a /\ ~InEquipment(eq)
    /\ \E r \in 1..Len(raw_relic_lists) : InRelics(raw_relic_lists[r])

(* C18: the name of a hero of a built model is its heroDefinitionId        *)
(* without the leading "hero." and otherwise unchanged: an identifier      *)
(* without the prefix stays as it is, and a "hero." further in is kept.    *)
C18_NameStripsLeadingPrefix ==
    pc = "built" =>
        \A i \in 1..Len(heroes) :
            NonEmptyId(heroes[i].heroDefinitionId) =>
                heroes[i].name = Str(StripPrefix(heroes[i].heroDefinitionId.s))

----------------------------------------------------------------------------
(* The buckets, read off the stream alone. *)

LastOrNone(seq) == IF seq = <<>> THEN None ELSE Last(seq)

AllRoutedBy(rule) ==
    LET Test(msg) == FirstRule(msg) = rule IN SelectSeq(messages, Test)

EquipmentListsOf(seq) ==
    LET HasList(msg) == msg.allEquipment.t # "absent"
        kept == SelectSeq(seq, HasList)
    IN [i \in 1..Len(kept) |-> kept[i].allEquipment]

(* C19: whenever classify_startup_messages has returned, on its first call *)
(* or on a later call on the same analyzer, the seven buckets are the same *)
(* function of the stream: nothing of an earlier call is left in them.     *)
C19_BucketsFromStreamAlone ==
    pc = "classified" =>
        /\ raw_playerdto = LastOrNone(AllRoutedBy(1))
        /\ raw_heropush = LastOrNone(AllRoutedBy(2))
        /\ raw_equipment_lists = EquipmentListsOf(AllRoutedBy(3))
        /\ raw_relic_lists = AllRoutedBy(4)
        /\ raw_cities = AllRoutedBy(5)
        /\ raw_alliance_members = LastOrNone(AllRoutedBy(6))
        /\ raw_alliance_cities = AllRoutedBy(7)

C19_Witness ==
    /\ pc = "classified"
    /\ classify_calls = 2
    /\ Len(raw_relic_lists) = 1
    /\ Len(raw_equipment_lists) = 1

(* C20: a call of save_parsed_data, export_analysis_json,                  *)
(* export_to_csv_all or create_summary_dashboard, returning or raising,    *)
(* in whatever order they are called, leaves the eight model fields and    *)
(* the seven buckets as they were.                                         *)
C20_ConsumersLeaveModel ==
    [][consumed' # consumed => UNCHANGED <<model, buckets>>]_vars

C20_Witness ==
    /\ consumed = {"save_parsed_data", "export_analysis_json",
                   "export_to_csv_all", "create_summary_dashboard"}
    /\ pc = "built"
    /\ Len(heroes) = 2
    /\ heroes[1].level.n < heroes[2].level.n
    /\ DashboardFile \in files

----------------------------------------------------------------------------
(* C21: every step of classify_startup_messages, from its entry to its     *)
(* return or raise, on a first call or on a later one, leaves messages and *)
(* the eight model fields as they were.                                    *)
C21_ClassifierLeavesStreamAndModel ==
    [][(pc = "classifying" \/ pc' = "classifying") =>
           UNCHANGED <<messages, model>>]_vars

C21_Witness ==
    /\ pc = "classified"
    /\ classify_calls = 2
    /\ Len(heroes) = 2
    /\ equipment # <<>>
    /\ Len(messages) = 2

----------------------------------------------------------------------------
(* The grouping, read off the buckets. *)

(* the raw equipment items of all inner lists, in stream order *)
FlatRawEquipment == FlatItems(raw_equipment_lists)

EquipmentHero(eq) == Get(eq.equippedOnHeroDefinitionId)

(* the identifier is one of HeroPush.unlocked *)
Owned(hero_def) == hero_def \in OwnedIds

(* the same, and the identifier is a non-empty string *)
OwnedNonEmpty(hero_def) == NonEmptyId(hero_def) /\ hero_def \in OwnedIds

KeysDiffer(groups) ==
    \A g, h \in 1..Len(groups) : groups[g].key = groups[h].key => g = h

(* the entries of the kept equipment items that go under key, in order *)
EquipmentUnder(key) ==
    LET Under(eq) == /\ OwnedNonEmpty(EquipmentHero(eq))
                     /\ Str(StripHero(EquipmentHero(eq).s)) = key
        kept == SelectSeq(FlatRawEquipment, Under)
    IN [i \in 1..Len(kept) |-> EquipmentEntry(kept[i])]

RelicsUnder(key) ==
    LET Under(r) == /\ OwnedNonEmpty(RelicHero(r))
                    /\ Str(StripHero(RelicHero(r).s)) = key
        kept == SelectSeq(raw_relic_lists, Under)
    IN [i \in 1..Len(kept) |-> RelicEntry(kept[i])]

(* C27: in a built model two kept equipment items, or two kept relics,     *)
(* are under the same group key only if they name the same raw hero        *)
(* identifier: stripping the prefix never merges two owned heroes.         *)
C27_GroupsNeverMerge ==
    pc = "built" =>
        /\ \A eq1, eq2 \in RawEquipmentItems :
               ( /\ OwnedNonEmpty(EquipmentHero(eq1))
                 /\ OwnedNonEmpty(EquipmentHero(eq2))
                 /\ \E g \in 1..Len(equipment) :
                        \E i, j \in 1..Len(equipment[g].items) :
                            /\ equipment[g].items[i] = EquipmentEntry(eq1)
                            /\ equipment[g].items[j] = EquipmentEntry(eq2) )
               => EquipmentHero(eq1) = EquipmentHero(eq2)
        /\ \A r1, r2 \in 1..Len(raw_relic_lists) :
               ( /\ OwnedNonEmpty(RelicHero(raw_relic_lists[r1]))
                 /\ OwnedNonEmpty(RelicHero(raw_relic_lists[r2]))
                 /\ \E g \in 1..Len(relics) :
                        \E i, j \in 1..Len(relics[g].items) :
                            /\ relics[g].items[i] = RelicEntry(raw_relic_lists[r1])
                            /\ relics[g].items[j] = RelicEntry(raw_relic_lists[r2]) )
               => RelicHero(raw_relic_lists[r1]) = RelicHero(raw_relic_lists[r2])

(* C28, as stated: in a built model the number of grouped equipment items  *)
(* is the number of raw items whose hero identifier is one of              *)
(* HeroPush.unlocked, and likewise for the relics.                         *)
C28_GroupedCountIsOwnedCount ==
    pc = "built" =>
        LET OwnedEq(eq) == Owned(EquipmentHero(eq))
            OwnedRelic(r) == r.supportingUnit.t = "dict" /\ Owned(RelicHero(r))
        IN /\ Len(FlatItems(equipment)) =
                  Len(SelectSeq(FlatRawEquipment, OwnedEq))
           /\ Len(FlatItems(relics)) = Len(SelectSeq(raw_relic_lists, OwnedRelic))

(* C28, amended: in a built model every raw equipment item (every relic)   *)
(* whose hero identifier is a non-empty string of HeroPush.unlocked is in  *)
(* exactly one group, once per occurrence in the stream, the items of a    *)
(* group are in flattened stream order, and the number of grouped items is *)
(* the number of such raw items; an item whose identifier is null or       *)
(* empty is in no group even when an unlocked hero has that identifier.    *)
C28_GroupingConservesKept ==
    pc = "built" =>
        LET KeptEq(eq) == OwnedNonEmpty(EquipmentHero(eq))
            KeptRelic(r) == OwnedNonEmpty(RelicHero(r))
        IN /\ KeysDiffer(equipment)
           /\ KeysDiffer(relics)
           /\ \A g \in 1..Len(equipment) :
                  equipment[g].items = EquipmentUnder(equipment[g].key)
           /\ \A g \in 1..Len(relics) :
                  relics[g].items = RelicsUnder(relics[g].key)
           /\ Len(FlatItems(equipment)) =
                  Len(SelectSeq(FlatRawEquipment, KeptEq))
           /\ Len(FlatItems(relics)) = Len(SelectSeq(raw_relic_lists, KeptRelic))

C28_Witness ==
    /\ pc = "built"
    /\ Len(equipment) = 1
    /\ Len(equipment[1].items) = 2
    /\ equipment[1].items[1].id = Num(1)
    /\ equipment[1].items[2].id = Num(5)
    /\ Len(FlatRawEquipment) = 7

(* C29: in a built model no group of equipment or relics is empty and      *)
(* every group key is the name of a hero of the heroes list; a hero        *)
(* without kept items has no key.                                          *)
C29_GroupsNonEmptyAndNamed ==
    pc = "built" =>
        /\ \A g \in 1..Len(equipment) :
               /\ equipment[g].items # <<>>
               /\ \E i \in 1..Len(heroes) : heroes[i].name = equipment[g].key
        /\ \A g \in 1..Len(relics) :
               /\ relics[g].items # <<>>
               /\ \E i \in 1..Len(heroes) : heroes[i].name = relics[g].key

C29_Witness ==
    /\ pc = "built"
    /\ Len(equipment) = 1
    /\ relics = <<>>
    /\ Len(heroes) = 4
    /\ equipment[1].key = Str(<<"b">>)
    /\ \E i \in 1..Len(heroes) : heroes[i].name = Null

----------------------------------------------------------------------------
(* main() *)

ConsumerSet == {ConsumerNames[j] : j \in 1..Len(ConsumerNames)}

ConsumerFiles ==
    ParsedFiles \cup {AnalysisFile, DashboardFile}
    \cup {CsvFiles[k] : k \in 1..Len(CsvFiles)}

(* C23: in a run with --skip-download that finds raw/startup.json in the   *)
(* data directory, the directory setup leaves the file and what it holds   *)
(* in place, so that main finds it and goes on to the classifier.          *)
C23_SetupKeepsStartup ==
    [][(pc = "start" /\ pc' = "ready" /\ skip_download
            /\ startup_file # NoFile)
           => startup_file' = startup_file]_vars

(* C24: in main() a consumer has run only when classification and build    *)
(* returned; when an earlier step raised, no consumer ran, no consumer     *)
(* file was written and the exit status is not 0; and the exit status is 0 *)
(* only when all four consumers returned.                                  *)
C24_ConsumersOnlyAfterBuild ==
    /\ consumed # {} =>
           \/ pc \in {"built", "done"}
           \/ pc = "failed" /\ raised_at \in ConsumerSet
    /\ (pc = "failed" /\ raised_at \notin ConsumerSet) =>
           consumed = {} /\ files \cap ConsumerFiles = {}
    /\ pc = "failed" => exit_status \in {NoStatus, 1}
    /\ exit_status = 1 => pc = "failed"
    /\ exit_status = 0 =>
           /\ pc = "done"
           /\ consumed = ConsumerSet
           /\ error = NoError
           /\ ConsumerFiles \subseteq files

C24_Witness ==
    /\ exit_status = 1
    /\ raised_at = "relics"
    /\ heroes # <<>>
    /\ consumed = {}

(* C30: fetch_startup returns only on an analyzer that is logged in; on    *)
(* one that is not it raises "Not logged in" without sending a request     *)
(* and leaves startup and messages as they were; and a payload without     *)
(* rootContext.messages makes it raise, with messages left as they were.   *)
C30_FetchNeedsLogin ==
    /\ [](pc = "loaded" =>
             /\ session_data # NoSession
             /\ startup.rootContext = "dict"
             /\ startup.messages.t = "list"
             /\ messages = startup.messages.items)
    /\ [](startup \in {NoMessagesKey, NoRootContext} =>
             /\ pc = "failed"
             /\ error = MissingMessages
             /\ messages = <<>>)
    /\ [][(session_data = NoSession
              /\ (pc' = "loaded" \/ raised_at' = "fetch_startup"))
             => /\ pc' = "failed"
                /\ error' = NotLoggedIn
                /\ requests_sent' = requests_sent
                /\ UNCHANGED <<startup, messages>>]_vars

C30_Witness ==
    /\ pc = "failed"
    /\ error = NotLoggedIn
    /\ requests_sent = 0
    /\ startup = NoStartup


----------------------------------------------------------------------------
(* The asset downloader. *)

Occurrences(seq, x) == Cardinality({k \in 1..Len(seq) : seq[k] = x})

FirstAttemptFailed(i) == futures[i] \in {"failed", "error"}

(* C22: when process_urls has returned, download_file has been called with *)
(* nothing but urls of the list, once for every place a url has in the     *)
(* list and once more for every such place whose first attempt failed      *)
(* (non-200 status or exception); so a url whose attempt failed is         *)
(* attempted exactly twice and a url that succeeded exactly once.          *)
C22_FailedUrlsRetriedOnce ==
    dl_pc = "done" =>
        /\ \A k \in 1..Len(attempts) :
               \E i \in 1..Len(urls) : attempts[k] = urls[i]
        /\ \A i \in 1..Len(urls) :
               Occurrences(attempts, urls[i]) =
                   Occurrences(urls, urls[i])
                   + Cardinality({j \in 1..Len(urls) :
                                      urls[j] = urls[i] /\ FirstAttemptFailed(j)})

(* C25: at most max_workers downloads are in flight at any time, and once  *)
(* the retry pass has begun every download of the pool has finished and    *)
(* has been collected, so no retry runs beside a download of the pool.     *)
C25_PoolBoundedRetryAfterDrain ==
    /\ Cardinality(InFlight) <= max_workers
    /\ (dl_pc \in {"retry", "done"} \/ retry_running) =>
           /\ InFlight = {}
           /\ \A i \in 1..Len(futures) : futures[i] \in Finished
           /\ collected = 1..Len(futures)

(* every worker is busy while a call is still waiting in the queue *)
C25_Witness ==
    /\ dl_pc = "pool"
    /\ Cardinality(InFlight) = max_workers
    /\ \E i \in 1..Len(futures) : futures[i] = "pending"

(* C26: no two downloads whose destination file is open at the same time   *)
(* write to the same file.                                                 *)
C26_NoTwoWritersOfOneFile ==
    \A i, j \in 1..Len(futures) :
        (i # j /\ futures[i] = "writing" /\ futures[j] = "writing")
            => FileName(urls[i]) # FileName(urls[j])

====
